---- MODULE Spec2Model ----
(***************************************************************************)
(* A model of src/ScrapBot.py: the ExcelChatbot object (load_data,         *)
(* get_data_summary, query_data_with_ai, execute_query, chat) and the      *)
(* Streamlit script main(), which is run once per user interaction.        *)
(*                                                                         *)
(* Texts are sequences of lines (what split("\n") gives), a line is a      *)
(* sequence of tokens.  A DataFrame is a record of its column labels, its  *)
(* row index and the place in the file system it was read from.  Python    *)
(* exceptions are values: every modelled function returns a record with    *)
(* an "exc" field that says whether, and with which class, it raised.      *)
(***************************************************************************)
EXTENDS Integers, Sequences, FiniteSets, TLC

VARIABLES
    df,               \* self.df
    excel_file_path,  \* self.excel_file_path
    mtime,            \* os.path.getmtime of each file of the folder
    messages,         \* st.session_state.messages, and whether the key is set
    quick_question,   \* st.session_state.quick_question (<<>>: key not set)
    current_file,     \* st.session_state.current_file ("absent": key not set)
    last_modified,    \* st.session_state.last_modified (0: key not set)
    folder_path,      \* st.session_state.folder_path ("absent": key not set)
    call,             \* the last operation performed and how it ended
    summaries         \* the last text get_data_summary returned since the last load_data call

vars == <<df, excel_file_path, mtime, messages, quick_question, current_file,
          last_modified, folder_path, call, summaries>>

-----------------------------------------------------------------------------
(* Bounds of the model *)

MaxTime == 2      \* modification times run over 1..MaxTime
MaxMessages == 2  \* the chat history is followed up to this length

-----------------------------------------------------------------------------
(* Python values *)

None == [none |-> TRUE]
NoneText == "None"
Absent == "absent"
NoQuestion == <<>>
NoMessages == [present |-> FALSE, list |-> <<>>]
Messages(list) == [present |-> TRUE, list |-> list]

Min(a, b) == IF a < b THEN a ELSE b

\* Exception classes: the ones "except Exception" catches, and SystemExit,
\* which derives from BaseException only.
NoExc == "none"
CaughtClasses == {"SyntaxError", "NameError", "AttributeError", "IndexError",
                  "TypeError", "FileNotFoundError", "ValueError", "APIError"}
IsException(e) == e \in CaughtClasses

-----------------------------------------------------------------------------
(* The file system: what pd.read_excel finds *)

StrLabel(s) == <<"str", s>>
IntLabel(s) == <<"int", s>>

Paths == {"a.xlsx", "bad.xlsx", "none.xlsx"}
FolderFiles == <<"a.xlsx", "bad.xlsx">>
Sheets == {"S1", "S2", "S3", "S9"}

\* The sheets of each workbook; bad.xlsx exists but is no workbook, none.xlsx
\* does not exist.
SheetNamesOf(p) ==
    IF p = "a.xlsx" THEN <<"S1", "S2", "S3">> ELSE <<>>

Range(s) == {s[i] : i \in DOMAIN s}

\* Header row and number of data rows of a sheet.  Sheet S2 has a numeric
\* header cell, which read_excel keeps as an int label; sheet S3 is empty.
HeaderOf(p, s) ==
    CASE s = "S1" -> <<StrLabel("A"), StrLabel("B"), StrLabel("C")>>
      [] s = "S2" -> <<IntLabel("2020"), StrLabel("B")>>
      [] OTHER -> <<>>

RowCountOf(p, s) ==
    CASE s = "S1" -> 5
      [] s = "S2" -> 2
      [] OTHER -> 0

\* pd.read_excel(file_path, sheet_name=sheet_name), the files' modification
\* times being mt: the DataFrame, or the exception it raises.
read_excel(file_path, sheet_name, mt) ==
    IF file_path = "none.xlsx"
    THEN [exc |-> "FileNotFoundError", ret |-> None]
    ELSE IF sheet_name \notin Range(SheetNamesOf(file_path))
    THEN [exc |-> "ValueError", ret |-> None]
    ELSE [exc |-> NoExc,
          ret |-> [cols |-> HeaderOf(file_path, sheet_name),
                   rows |-> [i \in 1..RowCountOf(file_path, sheet_name) |-> i],
                   src |-> <<file_path, sheet_name>>]]

\* pd.read_excel(file_path): the first sheet of the workbook.
read_excel_first(file_path, mt) ==
    IF SheetNamesOf(file_path) = <<>>
    THEN read_excel(file_path, NoneText, mt)
    ELSE read_excel(file_path, SheetNamesOf(file_path)[1], mt)

-----------------------------------------------------------------------------
(* ExcelChatbot.  bot is the object: [df, excel_file_path]. *)

Bot(d, p) == [df |-> d, excel_file_path |-> p]

\* __init__: no DataFrame, excel_file_path as given (main gives None).
NewBot == Bot(None, NoneText)

\* Lines 35-38 of load_data: the sheet when one is named, else the first.
load_data_read(file_path, sheet_name, mt) ==
    IF sheet_name # NoneText
    THEN read_excel(file_path, sheet_name, mt)
    ELSE read_excel_first(file_path, mt)

\* A variant of load_data that records the path before it reads.
load_data_path_first(bot, file_path, sheet_name, mt) ==
    LET r == load_data_read(file_path, sheet_name, mt)
    IN  IF r.exc = NoExc
        THEN [bot |-> Bot(r.ret, file_path), exc |-> NoExc, ret |-> TRUE]
        ELSE [bot |-> Bot(bot.df, file_path), exc |-> NoExc, ret |-> FALSE]

\* A variant of load_data that clears the DataFrame before it reads.
load_data_clearing(bot, file_path, sheet_name, mt) ==
    LET r == load_data_read(file_path, sheet_name, mt)
    IN  IF r.exc = NoExc
        THEN [bot |-> Bot(r.ret, file_path), exc |-> NoExc, ret |-> TRUE]
        ELSE [bot |-> Bot(None, bot.excel_file_path), exc |-> NoExc, ret |-> FALSE]

\* load_data: the assignment to self.df happens only once read_excel has
\* returned, the one to self.excel_file_path after it; any Exception is
\* caught and False returned.
load_data(bot, file_path, sheet_name, mt) ==
    LET r == load_data_read(file_path, sheet_name, mt)
    IN  IF r.exc = NoExc
        THEN [bot |-> Bot(r.ret, file_path), exc |-> NoExc, ret |-> TRUE]
        ELSE [bot |-> bot, exc |-> NoExc, ret |-> FALSE]

\* get_sheet_names: the sheet names, [] when the file cannot be opened.
get_sheet_names(file_path) == SheetNamesOf(file_path)

\* ', '.join(labels): a TypeError unless every label is a str.
JoinLabels(labels) ==
    IF \A i \in DOMAIN labels : labels[i][1] = "str"
    THEN [exc |-> NoExc, ret |-> [i \in DOMAIN labels |-> labels[i][2]]]
    ELSE [exc |-> "TypeError", ret |-> <<>>]

\* df.head(n)
head(d, n) == [d EXCEPT !.rows = SubSeq(d.rows, 1, Min(n, Len(d.rows)))]

SummarySentinel == [text |-> "No data loaded"]

\* get_data_summary: the sentinel without a DataFrame; else the counts, the
\* joined column labels and the first three rows.  A raise of the join
\* leaves the function.
get_data_summary(bot) ==
    IF bot.df = None
    THEN [exc |-> NoExc, ret |-> SummarySentinel]
    ELSE LET j == JoinLabels(bot.df.cols)
         IN  IF j.exc # NoExc
             THEN [exc |-> j.exc, ret |-> SummarySentinel]
             ELSE [exc |-> NoExc,
                   ret |-> [text |-> "Dataset Summary",
                            total_rows |-> Len(bot.df.rows),
                            total_columns |-> Len(bot.df.cols),
                            columns |-> j.ret,
                            sample |-> head(bot.df, 3)]]

-----------------------------------------------------------------------------
(* Texts: a str is the sequence of its lines, str.split("\n"); the empty    *)
(* str is one empty line.  A line is the sequence of its tokens.            *)

\* The marker of a fenced block (three backticks).
Fence == "<fence>"
Blank == <<>>
L_fence == <<Fence>>
L_fencepy == <<Fence, "python">>
L_shape == <<"df", ".", "shape">>
L_pop == <<"df", ".", "pop", "(", "df.columns[0]", ")">>
L_drop == <<"df", ".", "drop", "(", "df.index, inplace=True", ")">>
L_exit == <<"pd", ".", "io", ".", "common", ".", "os", ".", "sys", ".", "exit", "(", ")">>
L_len == <<"len", "(", "df", ")">>
L_nosuch == <<"df", ".", "nosuch">>

EmptyText == <<Blank>>

\* "\n".join(lines)
JoinLines(ls) == IF ls = <<>> THEN EmptyText ELSE ls

\* line.startswith(Fence)
StartsWithFence(line) == line # <<>> /\ line[1] = Fence

RECURSIVE LStrip(_)
LStrip(t) == IF t # <<>> /\ Head(t) = Blank THEN LStrip(Tail(t)) ELSE t

RECURSIVE RStrip(_)
RStrip(t) ==
    IF t # <<>> /\ t[Len(t)] = Blank THEN RStrip(SubSeq(t, 1, Len(t) - 1)) ELSE t

\* str.strip(): the blank lines at both ends go.
Strip(t) == JoinLines(RStrip(LStrip(t)))

\* Lines 90-93 of query_data_with_ai: strip, and when the text starts with a
\* fence, keep split("\n")[1:-1].
StripFences(content) ==
    LET generated_code == Strip(content)
    IN  IF StartsWithFence(generated_code[1])
        THEN JoinLines(SubSeq(generated_code, 2, Len(generated_code) - 1))
        ELSE generated_code

-----------------------------------------------------------------------------
(* eval(pandas_code, {"__builtins__": {}}, {'df': self.df, 'pd': pd}) *)

Names == {"df", "pd", "len", "shape", "pop", "drop", "nosuch", "io", "common",
          "os", "sys", "exit", "Error", "generating", "executing", "query",
          "Connection", "error", "list", "index", "out", "of", "range", "python"}
Args == {"df", "df.columns[0]", "df.index, inplace=True"}

\* The trailers of a primary: attribute references, then at most one call.
RECURSIVE IsTrailer(_)
IsTrailer(ts) ==
    \/ ts = <<>>
    \/ ts = <<"(", ")">>
    \/ Len(ts) = 3 /\ ts[1] = "(" /\ ts[2] \in Args /\ ts[3] = ")"
    \/ Len(ts) >= 2 /\ ts[1] = "." /\ ts[2] \in Names /\ IsTrailer(SubSeq(ts, 3, Len(ts)))

\* A line is an expression when it is a name and its trailers.
IsExpression(line) ==
    line # <<>> /\ line[1] \in Names /\ IsTrailer(Tail(line))

NonBlank(line) == line # Blank

EvalResult(e, v, d) == [exc |-> e, ret |-> v, df |-> d]

\* The value of one expression line with df bound to d; the "df" field is
\* the DataFrame object afterwards (the binding is the object itself, so a
\* method that works in place changes it).
EvalLine(line, d) ==
    IF ~IsExpression(line) THEN EvalResult("SyntaxError", None, d)
    ELSE IF line[1] \notin {"df", "pd"} THEN EvalResult("NameError", None, d)
    ELSE IF line = <<"df">> THEN EvalResult(NoExc, [frame |-> d], d)
    ELSE IF line = L_exit THEN EvalResult("SystemExit", None, d)
    ELSE IF line[1] = "pd" \/ d = None THEN EvalResult("AttributeError", None, d)
    ELSE IF line = L_shape
    THEN EvalResult(NoExc, [shape |-> <<Len(d.rows), Len(d.cols)>>], d)
    ELSE IF line = L_pop
    THEN (IF d.cols = <<>>
          THEN EvalResult("IndexError", None, d)
          ELSE EvalResult(NoExc, [column |-> Head(d.cols)],
                          [d EXCEPT !.cols = Tail(d.cols)]))
    ELSE IF line = L_drop
    THEN EvalResult(NoExc, None, [d EXCEPT !.rows = <<>>])
    ELSE EvalResult("AttributeError", None, d)

\* eval of a text: blank lines are skipped, and anything but one expression
\* is a syntax error.
Eval(pandas_code, d) ==
    LET ls == SelectSeq(pandas_code, NonBlank)
    IN  IF Len(ls) # 1 THEN EvalResult("SyntaxError", None, d)
        ELSE EvalLine(ls[1], d)

-----------------------------------------------------------------------------
(* The text-generation service and the three methods that use it *)

\* What self.client.chat.completions.create does: a completion, or a raise
\* whose str(e) is msg.
Completed(content) == [ok |-> TRUE, content |-> content, msg |-> <<>>]
Failed(msg) == [ok |-> FALSE, content |-> EmptyText, msg |-> msg]

ServiceErrors == {<<"Connection", "error", ".">>,
                  <<"list", "index", "out", "of", "range">>}

\* f"Error generating query: {str(e)}"
GeneratingError(msg) == << <<"Error", "generating", "query", ":">> \o msg >>

\* f"Error executing query: {str(e)}"
ExecutingError(e) == [kind |-> "text", prefix |-> "Error executing query:", msg |-> e]

Value(v) == [kind |-> "value", value |-> v]
Text(t) == [kind |-> "text", text |-> t]
Pair(code, result) == [kind |-> "pair", code |-> code, result |-> result]

MethodResult(b, e, v) == [bot |-> b, exc |-> e, ret |-> v]

\* A variant of query_data_with_ai without the try/except around the call.
query_data_with_ai_raising(bot, user_question, svc) ==
    LET data_context == get_data_summary(bot)
    IN  IF data_context.exc # NoExc
        THEN MethodResult(bot, data_context.exc, Text(EmptyText))
        ELSE IF svc.ok
        THEN MethodResult(bot, NoExc, Text(StripFences(svc.content)))
        ELSE MethodResult(bot, "APIError", Text(EmptyText))

\* query_data_with_ai: the summary is taken before the try; inside it the
\* completion is stripped of its fences, and a raise of the service becomes
\* the returned text.
query_data_with_ai(bot, user_question, svc) ==
    LET data_context == get_data_summary(bot)
    IN  IF data_context.exc # NoExc
        THEN MethodResult(bot, data_context.exc, Text(EmptyText))
        ELSE IF svc.ok
        THEN MethodResult(bot, NoExc, Text(StripFences(svc.content)))
        ELSE MethodResult(bot, NoExc, Text(GeneratingError(svc.msg)))

\* execute_query: eval with 'df' bound to self.df itself; "except Exception"
\* turns an Exception into the error text and lets any other raise through.
execute_query(bot, pandas_code) ==
    LET r == Eval(pandas_code, bot.df)
        after == Bot(r.df, bot.excel_file_path)
    IN  IF r.exc = NoExc
        THEN MethodResult(after, NoExc, Value(r.ret))
        ELSE IF IsException(r.exc)
        THEN MethodResult(after, NoExc, ExecutingError(r.exc))
        ELSE MethodResult(after, r.exc, Value(None))

PleaseLoad == Text(<< <<"Please", "load", "data", "first">> >>)

\* chat: translate, then execute; a raise of either leaves chat.
chat(bot, user_question, svc) ==
    IF bot.df = None
    THEN MethodResult(bot, NoExc, PleaseLoad)
    ELSE LET q == query_data_with_ai(bot, user_question, svc)
         IN  IF q.exc # NoExc
             THEN MethodResult(q.bot, q.exc, Pair(EmptyText, Value(None)))
             ELSE LET x == execute_query(q.bot, q.ret.text)
                  IN  IF x.exc # NoExc
                      THEN MethodResult(x.bot, x.exc, Pair(q.ret.text, Value(None)))
                      ELSE MethodResult(x.bot, NoExc, Pair(q.ret.text, x.ret))

-----------------------------------------------------------------------------
(* Inputs *)

\* The completions the service returns in a chat turn: an expression alone,
\* fenced, fenced without the closing fence, none, two of them.
ChatCompletions ==
    {<<L_shape>>, <<L_pop>>, <<L_drop>>, <<L_exit>>, <<L_len>>, <<L_nosuch>>,
     <<L_fencepy, L_drop, L_fence>>, <<L_fencepy, L_shape>>, <<Blank>>,
     <<L_shape, L_pop>>}

Services == {Completed(c) : c \in ChatCompletions} \cup {Failed(m) : m \in ServiceErrors}

\* The texts execute_query is given: whatever the translator returns.
Expressions == {StripFences(c) : c \in ChatCompletions}
                   \cup {GeneratingError(m) : m \in ServiceErrors}

Questions == {"How many total rows are in this data?"}

SheetArgs == Sheets \cup {NoneText}

-----------------------------------------------------------------------------
(* The chatbot object under any sequence of calls of its methods *)

Files == Range(FolderFiles)

\* The workbook another program (the sync client, Excel) rewrites, and the
\* modification times at the start: bad.xlsx is the newer file.
Rewritten == {"a.xlsx"}
InitialTimes == [f \in Files |-> IF f \in Rewritten THEN 1 ELSE 2]

Call(op, arg, service, exc, ret) ==
    [op |-> op, arg |-> arg, service |-> service, exc |-> exc, ret |-> ret]

NotCalled == "not called"

\* Whether the service is reached, and how it answers: it is called once
\* the summary has been built.
ServiceUse(bot, svc) ==
    IF get_data_summary(bot).exc # NoExc THEN NotCalled
    ELSE IF svc.ok THEN "completed" ELSE "failed"

Self == Bot(df, excel_file_path)

session == <<messages, quick_question, current_file, last_modified, folder_path>>

Init ==
    /\ df = NewBot.df
    /\ excel_file_path = NewBot.excel_file_path
    /\ mtime = InitialTimes
    /\ messages = NoMessages
    /\ quick_question = NoQuestion
    /\ current_file = Absent
    /\ last_modified = 0
    /\ folder_path = Absent
    /\ call = Call("init", <<>>, NotCalled, NoExc, None)
    /\ summaries = <<>>

Load(file_path, sheet_name) ==
    LET r == load_data(Self, file_path, sheet_name, mtime)
    IN  /\ df' = r.bot.df
        /\ excel_file_path' = r.bot.excel_file_path
        /\ call' = Call("load", <<file_path, sheet_name>>, NotCalled, r.exc, r.ret)
        /\ summaries' = <<>>
        /\ UNCHANGED <<mtime, session>>

Summary ==
    LET r == get_data_summary(Self)
    IN  /\ call' = Call("summary", <<>>, NotCalled, r.exc, r.ret)
        /\ summaries' = IF r.exc = NoExc THEN <<r.ret>>
                        ELSE summaries
        /\ UNCHANGED <<df, excel_file_path, mtime, session>>

Translate(user_question, svc) ==
    LET r == query_data_with_ai(Self, user_question, svc)
    IN  /\ df' = r.bot.df
        /\ excel_file_path' = r.bot.excel_file_path
        /\ call' = Call("translate", svc, ServiceUse(Self, svc), r.exc, r.ret)
        /\ UNCHANGED <<mtime, session, summaries>>

Execute(pandas_code) ==
    LET r == execute_query(Self, pandas_code)
    IN  /\ df' = r.bot.df
        /\ excel_file_path' = r.bot.excel_file_path
        /\ call' = Call("execute", pandas_code, NotCalled, r.exc, r.ret)
        /\ UNCHANGED <<mtime, session, summaries>>

Chat(user_question, svc) ==
    LET r == chat(Self, user_question, svc)
    IN  /\ df' = r.bot.df
        /\ excel_file_path' = r.bot.excel_file_path
        /\ call' = Call("chat", svc,
                        IF df = None THEN NotCalled ELSE ServiceUse(Self, svc),
                        r.exc, r.ret)
        /\ UNCHANGED <<mtime, session, summaries>>

\* The file is written by another program: its modification time changes.
Touch(f, t) ==
    /\ t # mtime[f]
    /\ mtime' = [mtime EXCEPT ![f] = t]
    /\ call' = Call("touch", <<>>, NotCalled, NoExc, None)
    /\ UNCHANGED <<df, excel_file_path, session, summaries>>

Next ==
    \/ \E p \in Paths, s \in SheetArgs : Load(p, s)
    \/ Summary
    \/ \E q \in Questions, svc \in Services : Translate(q, svc)
    \/ \E e \in Expressions : Execute(e)
    \/ \E q \in Questions, svc \in Services : Chat(q, svc)
    \/ \E f \in Rewritten, t \in 1..MaxTime : Touch(f, t)

Spec == Init /\ [][Next]_vars

-----------------------------------------------------------------------------
(* The Streamlit script: main() runs once for every interaction of the     *)
(* user, with the widgets' values as its inputs.  A run is followed as a   *)
(* record R: the session state, how the run has ended ("running" while it  *)
(* has not), the exception that ended it, the number of load_data calls    *)
(* and what the auto-refresh checkbox returned.                            *)

SessionState(b, m, q, c, l, f) ==
    [chatbot |-> b, messages |-> m, quick_question |-> q, current_file |-> c,
     last_modified |-> l, folder_path |-> f]

Running == "running"
NotRendered == "not rendered"
Start(S) == [s |-> S, end |-> Running, exc |-> NoExc, loads |-> 0, auto |-> NotRendered]
Ended(R, kind) == [R EXCEPT !.end = kind]
Raised(R, e) == [R EXCEPT !.end = "raise", !.exc = e]

\* The folders of the machine: the synced folder with FolderFiles, a folder
\* without workbooks, and a path that does not exist.
DefaultPath == "~/OneDrive"
FolderTexts == {DefaultPath, "~/empty", "~/nowhere"}
FolderExists(folder) == folder \in {DefaultPath, "~/empty"}

\* find_excel_files(folder_path), as paths
find_excel_files(folder) == IF folder = DefaultPath THEN FolderFiles ELSE <<>>

\* The quick questions and what the user types into st.chat_input.
QuickFirstColumn(label) == <<"What is the most common value in", label[2]>>
QuickSummary == <<"Show me a summary of all columns">>
QuickCount == <<"How many total rows are in this data?">>
TypedPrompts == {<<"Which row is the largest?">>}

UserMessage(prompt) == [role |-> "user", content |-> prompt]
\* The assistant's message.  Its content is the f-string of the code and
\* the result chat(prompt) returned; the model keeps of it the prompt that
\* was answered.
AssistantMessage(prompt, answer) ==
    [role |-> "assistant", content |-> [re |-> prompt]]

Triggers == {"none", "folder", "refresh", "load", "q1", "q2", "q3", "chat_input"}

\* Lines 141-146: a button of a common location stores the path and reruns.
FolderButtons(R, trigger) ==
    IF trigger = "folder"
    THEN Ended([R EXCEPT !.s.folder_path = DefaultPath], "rerun146")
    ELSE R

\* Lines 148-149: the stored folder path replaces the text input.
FolderOf(R, folder_text) ==
    IF R.s.folder_path # Absent THEN R.s.folder_path ELSE folder_text

\* Lines 153-154: Refresh Files reruns.
RefreshFiles(R, trigger) ==
    IF R.end = Running /\ trigger = "refresh" THEN Ended(R, "rerun154") ELSE R

\* A variant of AutoRefresh that reloads whenever the file is not older.
AutoRefreshNotOlder(R, path, sheet_name, mt) ==
    LET lm == IF R.s.last_modified = 0 THEN mt[path] ELSE R.s.last_modified
        current_modified == mt[path]
        r == load_data(R.s.chatbot, path, sheet_name, mt)
    IN  IF current_modified >= lm
        THEN Ended([R EXCEPT !.s.last_modified = current_modified,
                             !.s.chatbot = r.bot,
                             !.s.current_file = IF r.ret THEN path ELSE @,
                             !.loads = @ + 1,
                             !.auto = "on"], "rerun180")
        ELSE Ended([R EXCEPT !.s.last_modified = lm, !.auto = "on"], "rerun180")

\* Lines 170-180, the checkbox being set: last_modified is initialised to
\* the file's time; a file newer than it is recorded and reloaded; then
\* sleep and rerun.
AutoRefresh(R, path, sheet_name, mt) ==
    LET lm == IF R.s.last_modified = 0 THEN mt[path] ELSE R.s.last_modified
        current_modified == mt[path]
        r == load_data(R.s.chatbot, path, sheet_name, mt)
    IN  IF current_modified > lm
        THEN Ended([R EXCEPT !.s.last_modified = current_modified,
                             !.s.chatbot = r.bot,
                             !.s.current_file = IF r.ret THEN path ELSE @,
                             !.loads = @ + 1,
                             !.auto = "on"], "rerun180")
        ELSE Ended([R EXCEPT !.s.last_modified = lm, !.auto = "on"], "rerun180")

\* Lines 181-186: Load Data, or a file that is not the current one, loads;
\* a successful load empties the chat history when there is one.
LoadSection(R, trigger, path, sheet_name, mt) ==
    IF trigger = "load" \/ R.s.current_file = Absent \/ R.s.current_file # path
    THEN LET r == load_data(R.s.chatbot, path, sheet_name, mt)
         IN  IF r.ret
             THEN [R EXCEPT !.s.chatbot = r.bot,
                            !.s.current_file = path,
                            !.s.messages = IF @.present THEN Messages(<<>>) ELSE @,
                            !.loads = @ + 1]
             ELSE [R EXCEPT !.s.chatbot = r.bot, !.loads = @ + 1]
    ELSE R

\* Lines 157-192: the file and sheet selection, auto-refresh and loading;
\* an invalid folder ends the run.
FileSection(R, inp, mt) ==
    IF R.end # Running THEN R
    ELSE IF ~FolderExists(FolderOf(R, inp.folder_text)) THEN Ended(R, "return192")
    ELSE IF find_excel_files(FolderOf(R, inp.folder_text)) = <<>> THEN R
    ELSE LET sheet_names == get_sheet_names(inp.selected)
             sheet_name == IF sheet_names # <<>> THEN inp.sheet ELSE NoneText
         IN  IF inp.auto_refresh
             THEN AutoRefresh(R, inp.selected, sheet_name, mt)
             ELSE LoadSection([R EXCEPT !.auto = "off"], inp.trigger, inp.selected,
                              sheet_name, mt)

\* Lines 209-219: a quick-question button stores its question.
QuickButtons(R, trigger) ==
    CASE trigger = "q1" ->
             IF R.s.chatbot.df.cols = <<>>
             THEN Raised(R, "IndexError")
             ELSE [R EXCEPT !.s.quick_question = QuickFirstColumn(Head(R.s.chatbot.df.cols))]
      [] trigger = "q2" -> [R EXCEPT !.s.quick_question = QuickSummary]
      [] trigger = "q3" -> [R EXCEPT !.s.quick_question = QuickCount]
      [] OTHER -> R

\* Lines 225-228 and 236-247: the user's message is appended, chat is
\* called, and the assistant's message is appended when chat has returned.
Ask(R, prompt, svc) ==
    LET asked == [R EXCEPT !.s.messages.list = Append(@, UserMessage(prompt))]
        c == chat(R.s.chatbot, prompt, svc)
        done == [asked EXCEPT !.s.chatbot = c.bot]
    IN  IF c.exc # NoExc THEN Raised(done, c.exc)
        ELSE IF c.ret.kind # "pair" THEN Raised(done, "ValueError")
        ELSE [done EXCEPT !.s.messages.list = Append(@, AssistantMessage(prompt, c.ret))]

\* Lines 220-228: the history is created, a stored quick question is taken
\* out of the session state and asked.
QuickQuestion(R, svc) ==
    LET made == IF ~R.s.messages.present THEN [R EXCEPT !.s.messages = Messages(<<>>)] ELSE R
    IN  IF made.end # Running \/ made.s.quick_question = NoQuestion THEN made
        ELSE Ask([made EXCEPT !.s.quick_question = NoQuestion], made.s.quick_question, svc)

\* Lines 235-247: what was typed into the chat input is asked.
ChatInput(R, inp) ==
    IF R.end = Running /\ inp.trigger = "chat_input" THEN Ask(R, inp.prompt, inp.svc) ELSE R

\* Lines 194-247: the chat section, when there is a DataFrame.
ChatSection(R, inp) ==
    IF R.end # Running \/ R.s.chatbot.df = None THEN R
    ELSE LET q == QuickButtons(R, inp.trigger)
         IN  IF q.end # Running THEN q
             ELSE ChatInput(QuickQuestion(q, inp.svc), inp)

\* main(): one run of the script.
Main(S, inp, mt) ==
    LET R == ChatSection(
                 FileSection(
                     RefreshFiles(FolderButtons(Start(S), inp.trigger), inp.trigger),
                     inp, mt),
                 inp)
    IN  IF R.end = Running THEN Ended(R, "end") ELSE R

\* What the service does in a run of the script: an expression that reads,
\* one that works in place, one that leaves the interpreter.
UIServices == {Completed(<<L_shape>>), Completed(<<L_drop>>), Completed(<<L_exit>>)}

\* What the widgets return in a run: the button pressed (at most one),
\* the folder text, the selected file and sheet, the checkbox, what was
\* typed, and what the service does when it is called.  A value the run
\* does not read is fixed: a rerun button ends the run before any other
\* widget, only the synced folder has a file selection, an auto-refresh run
\* ends before the buttons below it, and only a question reaches the service.
Questioning == {"q1", "q2", "q3", "chat_input"}
AnyService == Completed(<<L_shape>>)
Inputs ==
    {inp \in [trigger : Triggers, folder_text : FolderTexts, selected : Files,
              sheet : Sheets, auto_refresh : BOOLEAN, prompt : TypedPrompts,
              svc : UIServices] :
        /\ inp.sheet = IF get_sheet_names(inp.selected) = <<>> THEN "S1" ELSE inp.sheet
        /\ get_sheet_names(inp.selected) # <<>> =>
               inp.sheet \in Range(get_sheet_names(inp.selected))
        /\ inp.trigger \in {"folder", "refresh"} => inp.folder_text = DefaultPath
        /\ (inp.trigger \in {"folder", "refresh"} \/ inp.folder_text # DefaultPath) =>
               inp.selected = "a.xlsx" /\ inp.sheet = "S1" /\ ~inp.auto_refresh
        /\ inp.folder_text # DefaultPath => inp.trigger # "load"
        /\ inp.auto_refresh => inp.trigger = "none"
        /\ inp.trigger \notin Questioning => inp.svc = AnyService}

Run(inp) ==
    \E R \in {Main(SessionState(Self, messages, quick_question, current_file,
                                last_modified, folder_path), inp, mtime)} :
        /\ Len(R.s.messages.list) <= MaxMessages
        /\ df' = R.s.chatbot.df
        /\ excel_file_path' = R.s.chatbot.excel_file_path
        /\ messages' = R.s.messages
        /\ quick_question' = R.s.quick_question
        /\ current_file' = R.s.current_file
        /\ last_modified' = R.s.last_modified
        /\ folder_path' = R.s.folder_path
        /\ call' = Call(R.end,
                        [selected |-> IF R.auto = "on" THEN inp.selected ELSE NoneText,
                         auto_refresh |-> R.auto, loads |-> R.loads],
                        NotCalled, R.exc, None)
        /\ UNCHANGED <<mtime, summaries>>

NextUI ==
    \/ \E inp \in Inputs : Run(inp)
    \/ \E f \in Rewritten, t \in 1..MaxTime : Touch(f, t)

SpecUI == Init /\ [][NextUI]_vars

-----------------------------------------------------------------------------
(* Properties of the chatbot object *)

\* C1: a load_data call whose read fails returns False and leaves self.df
\* and self.excel_file_path as they were, whatever was loaded before.
C1_FailedLoadKeepsState ==
    [][(call'.op = "load" /\ load_data_read(call'.arg[1], call'.arg[2], mtime).exc # NoExc)
        => /\ call'.exc = NoExc
           /\ call'.ret = FALSE
           /\ df' = df
           /\ excel_file_path' = excel_file_path]_vars

\* A load of a missing sheet has failed while another dataset is held.
C1_Witness ==
    /\ call.op = "load"
    /\ call.ret = FALSE
    /\ call.arg = <<"a.xlsx", "S9">>
    /\ df # None
    /\ df.src[2] = "S2"

\* C2: the dataset changes only in a load: after a summary, translate,
\* execute or chat call it is the dataset it was before the call.
C2_OnlyLoadChangesDataset ==
    [][df' # df => call'.op = "load"]_vars

\* C3: execute_query never raises: it returns the value or a text that
\* starts with "Error executing query:".
C3_ExecuteNeverRaises ==
    call.op = "execute" =>
        /\ call.exc = NoExc
        /\ \/ call.ret.kind = "value"
           \/ call.ret.kind = "text" /\ call.ret.prefix = "Error executing query:"

\* C4: when the service call fails, query_data_with_ai returns the error
\* description, execute_query given that description returns an execution
\* error text, and chat returns the pair of the two; none of them raises.
C4_FailedServiceTurn ==
    /\ (call.op = "translate" /\ call.service = "failed") =>
           call.exc = NoExc /\ call.ret = Text(GeneratingError(call.arg.msg))
    /\ (call.op = "execute" /\ call.arg \in {GeneratingError(m) : m \in ServiceErrors}) =>
           call.exc = NoExc /\ call.ret = ExecutingError("SyntaxError")
    /\ (call.op = "chat" /\ call.service = "failed") =>
           /\ call.exc = NoExc
           /\ call.ret = Pair(GeneratingError(call.arg.msg), ExecutingError("SyntaxError"))

\* A chat turn on a loaded dataset in which the service call failed.
C4_Witness ==
    /\ call.op = "chat"
    /\ call.service = "failed"
    /\ df # None
    /\ call.ret.kind = "pair"

\* C5: two summaries with no load_data call between them are the same text.
C5_SummaryIdempotent ==
    [][(call'.op = "summary" /\ call'.exc = NoExc /\ summaries # <<>>)
        => call'.ret = summaries[1]]_vars

\* C6: the first and the last line of the stripped completion are removed
\* exactly when the first and the last line are both fence lines; in every
\* other case the stripped completion is returned whole.
C6_FencePairStripped ==
    (call.op = "translate" /\ call.service = "completed") =>
        LET t == Strip(call.arg.content)
        IN  call.ret.text =
                IF StartsWithFence(t[1]) /\ StartsWithFence(t[Len(t)])
                THEN JoinLines(SubSeq(t, 2, Len(t) - 1))
                ELSE t

\* C7: the summary of a loaded dataset reports its number of rows, its
\* number of columns and a sample of min(3, rows) rows; with no dataset it
\* is the sentinel text.
C7_SummaryCounts ==
    call.op = "summary" =>
        /\ call.exc = NoExc
        /\ IF df = None
           THEN call.ret = SummarySentinel
           ELSE /\ call.ret.total_rows = Len(df.rows)
                /\ call.ret.total_columns = Len(df.cols)
                /\ Len(call.ret.sample.rows) = Min(3, Len(df.rows))

-----------------------------------------------------------------------------
(* Properties of the script *)

\* The ways a run of the script ends without an exception.
CompletedEnds == {"end", "rerun146", "rerun154", "rerun180", "return192"}
RunEnds == CompletedEnds \cup {"raise"}

\* user, assistant, user, assistant, ..., each assistant message the answer
\* to the user message before it.
Paired(list) ==
    /\ Len(list) % 2 = 0
    /\ \A i \in DOMAIN list :
           IF i % 2 = 1
           THEN list[i].role = "user"
           ELSE /\ list[i].role = "assistant"
                /\ list[i - 1].role = "user"
                /\ list[i].content.re = list[i - 1].content

\* C9: after every completed run the chat history has even length and
\* alternates user and assistant, each assistant message answering the user
\* message before it, and no quick question is left in the session state.
C9_HistoryPaired ==
    call.op \in CompletedEnds =>
        Paired(messages.list) /\ quick_question = NoQuestion

\* C10: a run in which the auto-refresh checkbox is set ends in the rerun
\* of the auto-refresh block, appends no message, and calls load_data only
\* when the selected file's time is greater than the stored last_modified;
\* last_modified never decreases.
C10_AutoRefreshRun ==
    [][/\ (call'.op \in RunEnds /\ call'.arg.auto_refresh = "on") =>
              /\ call'.op = "rerun180"
              /\ messages' = messages
              /\ quick_question' = quick_question
              /\ call'.arg.loads > 0 =>
                     last_modified # 0 /\ mtime[call'.arg.selected] > last_modified
              /\ call'.arg.loads = 0 => df' = df
       /\ last_modified' >= last_modified]_vars

\* An auto-refresh run has reloaded the rewritten file while the history
\* holds a question and its answer.
C10_Witness ==
    /\ call.op = "rerun180"
    /\ call.arg.loads = 1
    /\ call.arg.selected = "a.xlsx"
    /\ Len(messages.list) = 2
    /\ last_modified = 2

====
